---- MODULE Spec2Model ----
(***************************************************************************)
(* The AidanBench leaderboard (src/src/App.js): the question index, the    *)
(* per-model aggregation under the question filter, the ranking, and the   *)
(* drill-down projection, as the React component recomputes them on every  *)
(* state change.                                                           *)
(*                                                                         *)
(* A JavaScript object is modelled as the sequence of its own enumerable   *)
(* properties in enumeration order, each [key |-> k, value |-> v]; a       *)
(* JavaScript array is a TLA+ sequence; null is the string "null".         *)
(* A JavaScript number that carries a score is an IEEE-754 double, kept as *)
(* the exact integer number of units of 2^-56 it equals, written as four   *)
(* limbs of 24 bits, least significant first.                              *)
(***************************************************************************)
EXTENDS Integers, Sequences, FiniteSets, TLC

(* ------------------------------------------------------------------ *)
(* Bounds of the model                                                 *)
(* ------------------------------------------------------------------ *)

\* Most (model, configuration, question) branches of a dataset of Init.
MaxBranches == 2

\* Most Response records under one (model, configuration, question).
MaxLen == 2

(* ------------------------------------------------------------------ *)
(* JavaScript objects                                                  *)
(* ------------------------------------------------------------------ *)

\* null where a model name is expected; no model of the dataset bears it.
null == "null"

EmptyObject == << >>

ObjectKeys(o) == [i \in 1..Len(o) |-> o[i].key]

ObjectValues(o) == [i \in 1..Len(o) |-> o[i].value]

ObjectEntries(o) == o

HasKey(o, k) == \E i \in 1..Len(o) : o[i].key = k

\* o[k]; an absent property reads as undefined, which the program only tests
\* for truthiness.
Get(o, k) == IF HasKey(o, k) THEN o[CHOOSE i \in 1..Len(o) : o[i].key = k].value ELSE "undefined"

\* o[k] = v: an existing property keeps its place, a new one goes last.
Put(o, k, v) ==
  IF HasKey(o, k)
    THEN [i \in 1..Len(o) |-> IF o[i].key = k THEN [key |-> k, value |-> v] ELSE o[i]]
    ELSE Append(o, [key |-> k, value |-> v])

\* Array.prototype.includes
Includes(arr, x) == \E i \in 1..Len(arr) : arr[i] = x

(* ------------------------------------------------------------------ *)
(* IEEE-754 doubles, non-negative, in units of 2^-56                   *)
(* ------------------------------------------------------------------ *)

Base == 2^24

\* Carries propagated: every limb but the last below Base.
Norm(a) ==
  LET l2 == a[2] + (a[1] \div Base)
      l3 == a[3] + (l2 \div Base)
      l4 == a[4] + (l3 \div Base)
  IN  <<a[1] % Base, l2 % Base, l3 % Base, l4>>

BigAdd(a, b) == Norm([i \in 1..4 |-> a[i] + b[i]])

BigScale(a, k) == Norm([i \in 1..4 |-> a[i] * k])

RECURSIVE BitLength(_)
BitLength(n) == IF n = 0 THEN 0 ELSE 1 + BitLength(n \div 2)

BigBitLength(a) ==
  IF a[4] > 0 THEN 72 + BitLength(a[4])
  ELSE IF a[3] > 0 THEN 48 + BitLength(a[3])
  ELSE IF a[2] > 0 THEN 24 + BitLength(a[2])
  ELSE BitLength(a[1])

\* The exact value a rounded to the nearest double: 53 significant bits,
\* ties to the even significand. Values below 2^21 drop at most 24 bits.
RoundToDouble(a) ==
  LET s == BigBitLength(a) - 53
  IN  IF s <= 0 THEN a
      ELSE LET r    == IF s >= 24 THEN a[1] ELSE a[1] % (2^s)
               half == 2^(s - 1)
               lsb  == IF s >= 24 THEN a[2] % 2 ELSE (a[1] \div (2^s)) % 2
               up   == r > half \/ (r = half /\ lsb = 1)
           IN  Norm(<<a[1] - r + (IF up THEN 2^s ELSE 0), a[2], a[3], a[4]>>)

\* x + y on doubles
FAdd(x, y) == RoundToDouble(BigAdd(x, y))

Zero == <<0, 0, 0, 0>>

\* 1/2 = 2^55 units
Half == <<0, 0, 2^7, 0>>

\* floor of a value below 2^19
BigFloor(a) == (a[3] \div (2^8)) + a[4] * (2^16)

\* Math.round(x): the integer nearest x, a tie going up.
MathRound(x) == BigFloor(BigAdd(x, Half))

\* x.toFixed(1): the n for which n/10 - x is nearest zero, the larger n on a
\* tie; the result is the decimal n/10 written with one fraction digit, kept
\* here as n.
ToFixed1(x) == BigFloor(BigAdd(BigScale(x, 10), Half))

\* parseFloat(s).toString() of the decimal n/10 that toFixed(1) wrote: the
\* double nearest n/10 prints as its shortest decimal, which drops a zero
\* fraction digit.
ParseFloatToString(n) ==
  IF n % 10 = 0 THEN ToString(n \div 10)
  ELSE ToString(n \div 10) \o "." \o ToString(n % 10)

(* ------------------------------------------------------------------ *)
(* The dataset (results.json)                                          *)
(* ------------------------------------------------------------------ *)

\* The doubles nearest 0.1, 0.25, 0.7, 3.2, 4.8, 2.5
D_0_1  == <<10066330, 10066329, 25, 0>>
D_0_25 == <<0, 0, 64, 0>>
D_0_7  == <<3355440, 3355443, 179, 0>>
D_3_2  == <<3355456, 3355443, 819, 0>>
D_4_8  == <<13421760, 13421772, 1228, 0>>
D_2_5  == <<0, 0, 640, 0>>

\* The answers of one (model, configuration, question), in file order; the
\* answer numbers are not ascending, so a re-sort would show.
Answers ==
  << [answer_num |-> 2, answer |-> "b", coherence_score |-> D_3_2,
      embedding_dissimilarity_score |-> D_0_1],
     [answer_num |-> 1, answer |-> "a", coherence_score |-> D_4_8,
      embedding_dissimilarity_score |-> D_0_25],
     [answer_num |-> 3, answer |-> "c", coherence_score |-> D_2_5,
      embedding_dissimilarity_score |-> D_0_7],
     [answer_num |-> 3, answer |-> "d", coherence_score |-> D_0_25,
      embedding_dissimilarity_score |-> D_0_1] >>

Min(a, b) == IF a < b THEN a ELSE b

ResponseLists == { SubSeq(Answers, 1, n) : n \in 0..Min(MaxLen, Len(Answers)) }

ModelNames == <<"openai/gpt-4", "anthropic/claude-3", "google/gemini">>

ParamKeys == <<"temp_0.7", "temp_1.0">>

Questions == <<"Q1", "Q2">>

Range(s) == { s[i] : i \in 1..Len(s) }

\* The subsequence of s whose elements are in keep, in the order of s.
RECURSIVE SelectIn(_, _)
SelectIn(s, keep) ==
  IF s = << >> THEN << >>
  ELSE (IF Head(s) \in keep THEN <<Head(s)>> ELSE << >>) \o SelectIn(Tail(s), keep)

\* The object with the keys of the sequence keys, in order, and value val[k].
ObjectOf(keys, val) == [i \in 1..Len(keys) |-> [key |-> keys[i], value |-> val[keys[i]]]]

\* The dataset with the models of names, whose branches are the triples of
\* DOMAIN resp, each with the response list resp gives it. A configuration
\* is present under a model when it holds a branch.
DatasetOf(names, resp) ==
  LET cells == DOMAIN resp
      questionsOf(m, p) ==
        ObjectOf(SelectIn(Questions, { q \in Range(Questions) : <<m, p, q>> \in cells }),
                 [q \in Range(Questions) |-> IF <<m, p, q>> \in cells THEN resp[<<m, p, q>>] ELSE << >>])
      paramsOf(m) ==
        ObjectOf(SelectIn(ParamKeys, { p \in Range(ParamKeys) : \E q \in Range(Questions) : <<m, p, q>> \in cells }),
                 [p \in Range(ParamKeys) |-> questionsOf(m, p)])
  IN  [models |-> ObjectOf(names, [m \in Range(names) |-> paramsOf(m)])]

\* Datasets of two models with at most MaxBranches branches.
TwoModels == SubSeq(ModelNames, 1, 2)

Datasets ==
  LET all == Range(TwoModels) \X Range(ParamKeys) \X Range(Questions)
  IN  UNION { { DatasetOf(TwoModels, resp) : resp \in [cells -> ResponseLists] }
              : cells \in { c \in SUBSET all : Cardinality(c) <= MaxBranches } }

\* Datasets of three models, each with one configuration holding one question.
RankDatasets ==
  { DatasetOf(ModelNames,
              [c \in { <<m, ParamKeys[1], qOf[m]>> : m \in Range(ModelNames) } |-> lenOf[c[1]]])
    : qOf \in [Range(ModelNames) -> Range(Questions)],
      lenOf \in [Range(ModelNames) -> ResponseLists] }

(* ------------------------------------------------------------------ *)
(* The question index                                                  *)
(* ------------------------------------------------------------------ *)

\* Mutant of SetAdd: an array push, which keeps a repeated question.
ArrayPush(set, x) == Append(set, x)

\* Set.prototype.add on a Set kept as the sequence of its elements in
\* insertion order.
SetAdd(set, x) == IF Includes(set, x) THEN set ELSE Append(set, x)

RECURSIVE AddQuestions(_, _)
AddQuestions(questionsSet, keys) ==
  IF keys = << >> THEN questionsSet
  ELSE AddQuestions(SetAdd(questionsSet, Head(keys)), Tail(keys))

RECURSIVE AddParamObjs(_, _)
AddParamObjs(questionsSet, paramObjs) ==
  IF paramObjs = << >> THEN questionsSet
  ELSE AddParamObjs(AddQuestions(questionsSet, ObjectKeys(Head(paramObjs))), Tail(paramObjs))

RECURSIVE AddModels(_, _)
AddModels(questionsSet, models) ==
  IF models = << >> THEN questionsSet
  ELSE AddModels(AddParamObjs(questionsSet, ObjectValues(Head(models))), Tail(models))

\* Mutant of UniqueQuestions: the questions of the first model alone.
UniqueQuestionsFirstModel(data) ==
  AddModels(<< >>, SubSeq(ObjectValues(data.models), 1, Min(1, Len(data.models))))

\* Array.from(questionsSet) after the three nested forEach loops.
UniqueQuestions(data) == AddModels(<< >>, ObjectValues(data.models))

(* ------------------------------------------------------------------ *)
(* The aggregation                                                     *)
(* ------------------------------------------------------------------ *)

\* Mutant of Included: the empty filter lets nothing through.
IncludedNoneWhenEmpty(selected, question) == Includes(selected, question)

\* Mutant of Included: the selected questions are the ones left out.
IncludedUnselected(selected, question) == Len(selected) = 0 \/ ~Includes(selected, question)

\* The inclusion test: all questions when none is selected.
Included(selected, question) == Len(selected) = 0 \/ Includes(selected, question)

\* Mutant of ForEachResponse: totalResponses counts the question, not its
\* responses.
RECURSIVE SumScores(_, _)
SumScores(acc, responses) ==
  IF responses = << >> THEN acc
  ELSE SumScores(
         [acc EXCEPT !.sumCoherence = FAdd(@, Head(responses).coherence_score),
                     !.sumDissimilarity = FAdd(@, Head(responses).embedding_dissimilarity_score)],
         Tail(responses))

ForEachResponsePerQuestion(acc, responses) ==
  SumScores([acc EXCEPT !.totalResponses = @ + 1], responses)

\* responses.forEach: one more response, its two scores added to the sums.
RECURSIVE ForEachResponse(_, _)
ForEachResponse(acc, responses) ==
  IF responses = << >> THEN acc
  ELSE LET resp == Head(responses)
       IN  ForEachResponse(
             [acc EXCEPT !.totalResponses = @ + 1,
                         !.sumCoherence = FAdd(@, resp.coherence_score),
                         !.sumDissimilarity = FAdd(@, resp.embedding_dissimilarity_score)],
             Tail(responses))

\* Mutant of IncludeQuestion: the responses are stored sorted by answer_num.
RECURSIVE InsertByAnswerNum(_, _)
InsertByAnswerNum(s, x) ==
  IF s = << >> THEN <<x>>
  ELSE IF Head(s).answer_num <= x.answer_num THEN <<Head(s)>> \o InsertByAnswerNum(Tail(s), x)
  ELSE <<x>> \o s

RECURSIVE SortByAnswerNum(_)
SortByAnswerNum(responses) ==
  IF responses = << >> THEN << >>
  ELSE InsertByAnswerNum(SortByAnswerNum(SubSeq(responses, 1, Len(responses) - 1)),
                         responses[Len(responses)])

IncludeQuestionSorted(acc, paramKey, question, responses) ==
  LET fd1 == IF ~HasKey(acc.filteredData, paramKey)
               THEN Put(acc.filteredData, paramKey, EmptyObject)
               ELSE acc.filteredData
      fd2 == Put(fd1, paramKey, Put(Get(fd1, paramKey), question, SortByAnswerNum(responses)))
  IN  ForEachResponse([acc EXCEPT !.filteredData = fd2], responses)

\* The body of the loop over the questions of one configuration.
IncludeQuestion(acc, paramKey, question, responses) ==
  LET fd1 == IF ~HasKey(acc.filteredData, paramKey)
               THEN Put(acc.filteredData, paramKey, EmptyObject)
               ELSE acc.filteredData
      fd2 == Put(fd1, paramKey, Put(Get(fd1, paramKey), question, responses))
  IN  ForEachResponse([acc EXCEPT !.filteredData = fd2], responses)

RECURSIVE ForEachQuestion(_, _, _, _)
ForEachQuestion(acc, paramKey, entries, selected) ==
  IF entries = << >> THEN acc
  ELSE LET question  == Head(entries).key
           responses == Head(entries).value
       IN  ForEachQuestion(
             IF Included(selected, question)
               THEN IncludeQuestion(acc, paramKey, question, responses)
               ELSE acc,
             paramKey, Tail(entries), selected)

RECURSIVE ForEachParam(_, _, _)
ForEachParam(acc, entries, selected) ==
  IF entries = << >> THEN acc
  ELSE ForEachParam(
         ForEachQuestion(acc, Head(entries).key, ObjectEntries(Head(entries).value), selected),
         Tail(entries), selected)

\* Math.round(sumCoherence).toString(), or "0" without responses.
TotalCoherenceStr(totalResponses, sumCoherence) ==
  IF totalResponses > 0 THEN ToString(MathRound(sumCoherence)) ELSE "0"

\* Mutant of TotalDissimilarityStr: toFixed(2), two fraction digits kept.
TotalDissimilarityStrTwoDigits(totalResponses, sumDissimilarity) ==
  IF totalResponses > 0
    THEN LET n == BigFloor(BigAdd(BigScale(sumDissimilarity, 100), Half))
         IN  IF n % 100 = 0 THEN ToString(n \div 100)
             ELSE IF n % 10 = 0 THEN ToString(n \div 100) \o "." \o ToString((n % 100) \div 10)
             ELSE ToString(n \div 100) \o "." \o ToString((n % 100) \div 10) \o ToString(n % 10)
    ELSE "0"

\* parseFloat(sumDissimilarity.toFixed(1)).toString(), or "0" without responses.
TotalDissimilarityStr(totalResponses, sumDissimilarity) ==
  IF totalResponses > 0 THEN ParseFloatToString(ToFixed1(sumDissimilarity)) ELSE "0"

\* The summary pushed for one model.
ModelMetric(modelName, params, selected) ==
  LET acc == ForEachParam(
               [totalResponses |-> 0, sumCoherence |-> Zero, sumDissimilarity |-> Zero,
                filteredData |-> EmptyObject],
               ObjectEntries(params), selected)
  IN  [modelName          |-> modelName,
       totalResponses     |-> acc.totalResponses,
       totalCoherence     |-> TotalCoherenceStr(acc.totalResponses, acc.sumCoherence),
       totalDissimilarity |-> TotalDissimilarityStr(acc.totalResponses, acc.sumDissimilarity),
       filteredData       |-> acc.filteredData]

\* Mutant of Metrics: a model without included responses is not pushed.
MetricsDroppingEmpty(data, selected) ==
  SelectSeq([i \in 1..Len(data.models) |->
               ModelMetric(data.models[i].key, data.models[i].value, selected)],
            LAMBDA metric : metric.totalResponses > 0)

\* metrics before the sort: one summary per model, in Object.entries order.
Metrics(data, selected) ==
  [i \in 1..Len(data.models) |->
     ModelMetric(data.models[i].key, data.models[i].value, selected)]

\* The sort's comparator: negative when a goes before b.
Compare(a, b) == b.totalResponses - a.totalResponses

\* Mutant of Insert: x goes before the elements it compares equal to, an
\* unstable sort.
RECURSIVE InsertBeforeEqual(_, _)
InsertBeforeEqual(s, x) ==
  IF s = << >> THEN <<x>>
  ELSE IF Compare(Head(s), x) < 0 THEN <<Head(s)>> \o InsertBeforeEqual(Tail(s), x)
  ELSE <<x>> \o s

\* x put into the sorted sequence s behind every element that does not
\* compare greater than it.
RECURSIVE Insert(_, _)
Insert(s, x) ==
  IF s = << >> THEN <<x>>
  ELSE IF Compare(Head(s), x) <= 0 THEN <<Head(s)>> \o Insert(Tail(s), x)
  ELSE <<x>> \o s

\* Array.prototype.sort, which is stable: elements that compare equal keep
\* their order.
RECURSIVE SortFrom(_, _)
SortFrom(sorted, rest) ==
  IF rest = << >> THEN sorted ELSE SortFrom(Insert(sorted, Head(rest)), Tail(rest))

Sort(metrics) == SortFrom(<< >>, metrics)

\* The value of the modelsMetrics memo.
ModelsMetrics(data, selected) == Sort(Metrics(data, selected))

\* bestTotal
BestTotal(metrics) == IF Len(metrics) > 0 THEN metrics[1].totalResponses ELSE 0

\* Array.prototype.find on modelName
Find(metrics, name) ==
  IF \E i \in 1..Len(metrics) : metrics[i].modelName = name
    THEN LET i == CHOOSE i \in 1..Len(metrics) :
                    /\ metrics[i].modelName = name
                    /\ \A j \in 1..(i - 1) : metrics[j].modelName # name
         IN  [found |-> TRUE, value |-> metrics[i]]
    ELSE [found |-> FALSE]

\* The projection shown to the rendering layer when there is none.
NullDetail == [isNull |-> TRUE]

\* The value of the selectedModelDetail memo; an object, even an empty one,
\* is truthy, so a found model always yields its filteredData.
SelectedModelDetail(name, metrics) ==
  IF name = null \/ name = "" THEN NullDetail
  ELSE LET model == Find(metrics, name)
       IN  IF model.found
             THEN [isNull |-> FALSE, value |-> model.value.filteredData]
             ELSE NullDetail

(* ------------------------------------------------------------------ *)
(* The component's state and its handlers                              *)
(* ------------------------------------------------------------------ *)

VARIABLES
  sampleData,          \* the imported dataset
  uniqueQuestions,     \* memo, computed once
  selectedQuestions,   \* state: the filter, an array of questions
  modalOpen,           \* state
  selectedModelName,   \* state: a model name or null
  modelsMetrics,       \* memo on selectedQuestions
  selectedModelDetail  \* memo on selectedModelName and modelsMetrics

vars == <<sampleData, uniqueQuestions, selectedQuestions, modalOpen,
          selectedModelName, modelsMetrics, selectedModelDetail>>

\* The first render over the dataset data.
Mount(data) ==
  /\ sampleData = data
  /\ uniqueQuestions = UniqueQuestions(data)
  /\ selectedQuestions = << >>
  /\ modalOpen = FALSE
  /\ selectedModelName = null
  /\ modelsMetrics = ModelsMetrics(data, << >>)
  /\ selectedModelDetail = SelectedModelDetail(null, ModelsMetrics(data, << >>))

Init == \E data \in Datasets : Mount(data)

InitRank == \E data \in RankDatasets : Mount(data)

\* Mutant of Render: the selectedModelDetail memo depends on
\* selectedModelName alone and keeps its value through a filter change.
RenderStaleDetail ==
  /\ modelsMetrics' = ModelsMetrics(sampleData, selectedQuestions')
  /\ selectedModelDetail' =
       IF selectedModelName' = selectedModelName
         THEN selectedModelDetail
         ELSE SelectedModelDetail(selectedModelName', modelsMetrics')

\* The render a state change causes: both memos recomputed from the new
\* state (a memo whose dependencies did not change keeps an equal value).
Render ==
  /\ modelsMetrics' = ModelsMetrics(sampleData, selectedQuestions')
  /\ selectedModelDetail' = SelectedModelDetail(selectedModelName', modelsMetrics')

\* The array the multiple Select hands to onChange when the item of
\* question is clicked: the question dropped if selected, appended if not.
Toggle(selected, question) ==
  IF Includes(selected, question)
    THEN SelectIn(selected, Range(selected) \ {question})
    ELSE Append(selected, question)

handleFilterChange ==
  \E question \in Range(uniqueQuestions) :
    /\ selectedQuestions' = Toggle(selectedQuestions, question)
    /\ UNCHANGED <<sampleData, uniqueQuestions, modalOpen, selectedModelName>>
    /\ Render

handleSelectAll ==
  /\ selectedQuestions' = uniqueQuestions
  /\ UNCHANGED <<sampleData, uniqueQuestions, modalOpen, selectedModelName>>
  /\ Render

handleDeselectAll ==
  /\ selectedQuestions' = << >>
  /\ UNCHANGED <<sampleData, uniqueQuestions, modalOpen, selectedModelName>>
  /\ Render

\* A click on the row of a model of the table.
handleModelClick ==
  \E i \in 1..Len(modelsMetrics) :
    /\ selectedModelName' = modelsMetrics[i].modelName
    /\ modalOpen' = TRUE
    /\ UNCHANGED <<sampleData, uniqueQuestions, selectedQuestions>>
    /\ Render

handleClose ==
  /\ modalOpen
  /\ modalOpen' = FALSE
  /\ selectedModelName' = null
  /\ UNCHANGED <<sampleData, uniqueQuestions, selectedQuestions>>
  /\ Render

Next ==
  \/ handleFilterChange
  \/ handleSelectAll
  \/ handleDeselectAll
  \/ handleModelClick
  \/ handleClose

Spec == Init /\ [][Next]_vars

SpecRank == InitRank /\ [][Next]_vars

(* ------------------------------------------------------------------ *)
(* What the properties speak of, read off the raw dataset              *)
(* ------------------------------------------------------------------ *)

ModelKeys == Range(ObjectKeys(sampleData.models))

ParamsOfModel(m) == Get(sampleData.models, m)

\* The (configuration, question) branches of a model's subtree or of a
\* filteredData.
BranchesOf(params) ==
  UNION { { <<params[i].key, params[i].value[j].key>> : j \in 1..Len(params[i].value) }
          : i \in 1..Len(params) }

ResponsesAt(params, b) == Get(Get(params, b[1]), b[2])

RECURSIVE SetSum(_, _)
SetSum(S, f) ==
  IF S = {} THEN 0
  ELSE LET x == CHOOSE x \in S : TRUE IN f[x] + SetSum(S \ {x}, f)

\* The Response records of the branches of params whose question is in qs.
CountIn(params, qs) ==
  SetSum({ b \in BranchesOf(params) : b[2] \in qs },
         [b \in BranchesOf(params) |-> Len(ResponsesAt(params, b))])

QuestionsOf(params) == { b[2] : b \in BranchesOf(params) }

AllQuestions == UNION { QuestionsOf(ParamsOfModel(m)) : m \in ModelKeys }

RawCount(m) == CountIn(ParamsOfModel(m), QuestionsOf(ParamsOfModel(m)))

\* The questions a filter lets through: all of them when it is empty.
Effective(sel) == IF sel = << >> THEN AllQuestions ELSE Range(sel)

EntriesOf(metrics, m) == { k \in 1..Len(metrics) : metrics[k].modelName = m }

SumTotals(metrics) ==
  SetSum(1..Len(metrics), [k \in 1..Len(metrics) |-> metrics[k].totalResponses])

GrandTotal == SetSum(ModelKeys, [m \in ModelKeys |-> RawCount(m)])

\* The arrays the filter control can hold: the questions of the index, none
\* twice.
FilterArrays ==
  LET qs == Range(uniqueQuestions)
  IN  { f \in UNION { [1..n -> qs] : n \in 0..Cardinality(qs) } :
          \A i, j \in DOMAIN f : i # j => f[i] # f[j] }

(* ------------------------------------------------------------------ *)
(* C1                                                                  *)
(* ------------------------------------------------------------------ *)

\* C1: under the empty filter every model of the dataset is summarised with
\* totalResponses equal to the number of its Response records over every
\* configuration and every question of the raw dataset.
C1_EmptyFilterIdentity ==
  selectedQuestions = << >> =>
    \A m \in ModelKeys :
      /\ EntriesOf(modelsMetrics, m) # {}
      /\ \A k \in EntriesOf(modelsMetrics, m) : modelsMetrics[k].totalResponses = RawCount(m)

\* The empty filter with a model opened, over a model that holds three
\* responses or more under two branches or more.
C1_Witness ==
  /\ selectedQuestions = << >>
  /\ modalOpen
  /\ \E k \in 1..Len(modelsMetrics) :
       /\ Cardinality(BranchesOf(ParamsOfModel(modelsMetrics[k].modelName))) >= 2
       /\ modelsMetrics[k].totalResponses >= 3

(* ------------------------------------------------------------------ *)
(* C2                                                                  *)
(* ------------------------------------------------------------------ *)

\* C2 as stated: every model key has exactly one entry, and a model whose
\* included response count is 0 has totalResponses = 0 and an empty
\* filteredData.
C2_Original ==
  \A m \in ModelKeys :
    /\ Cardinality(EntriesOf(modelsMetrics, m)) = 1
    /\ CountIn(ParamsOfModel(m), Effective(selectedQuestions)) = 0 =>
         \A k \in EntriesOf(modelsMetrics, m) :
           /\ modelsMetrics[k].totalResponses = 0
           /\ modelsMetrics[k].filteredData = EmptyObject

\* C2: every model key of the dataset has exactly one entry under every
\* filter; a model with no included response has totalResponses = 0, and a
\* model with no included (configuration, question) branch has an empty
\* filteredData as well.
C2_NoModelDropped ==
  /\ Len(modelsMetrics) = Cardinality(ModelKeys)
  /\ \A m \in ModelKeys :
       /\ Cardinality(EntriesOf(modelsMetrics, m)) = 1
       /\ \A k \in EntriesOf(modelsMetrics, m) :
            /\ CountIn(ParamsOfModel(m), Effective(selectedQuestions)) = 0 =>
                 modelsMetrics[k].totalResponses = 0
            /\ { b \in BranchesOf(ParamsOfModel(m)) : b[2] \in Effective(selectedQuestions) } = {} =>
                 modelsMetrics[k].filteredData = EmptyObject

\* A filter that matches none of the questions of a model that has
\* responses: the model is listed with a zero total.
C2_Witness ==
  /\ selectedQuestions # << >>
  /\ \E k \in 1..Len(modelsMetrics) :
       /\ RawCount(modelsMetrics[k].modelName) > 0
       /\ modelsMetrics[k].totalResponses = 0
       /\ modelsMetrics[k].filteredData = EmptyObject

(* ------------------------------------------------------------------ *)
(* C3                                                                  *)
(* ------------------------------------------------------------------ *)

\* C3: for every filter F1 whose effective question set (all questions when
\* F1 is empty) is within that of the current filter, every model's
\* totalResponses under F1 is at most its totalResponses under the current
\* filter.
C3_FilterMonotonicity ==
  \A f1 \in FilterArrays :
    Effective(f1) \subseteq Effective(selectedQuestions) =>
      LET under1 == ModelsMetrics(sampleData, f1)
      IN  \A m \in ModelKeys :
            \A k1 \in EntriesOf(under1, m), k2 \in EntriesOf(modelsMetrics, m) :
              under1[k1].totalResponses <= modelsMetrics[k2].totalResponses

\* Two questions selected, and a model that loses responses, but not all,
\* when only the first stays selected.
C3_Witness ==
  /\ Len(selectedQuestions) = 2
  /\ \E k \in 1..Len(modelsMetrics) :
       LET under1 == ModelsMetrics(sampleData, <<selectedQuestions[1]>>)
       IN  \E k1 \in EntriesOf(under1, modelsMetrics[k].modelName) :
             /\ under1[k1].totalResponses > 0
             /\ under1[k1].totalResponses < modelsMetrics[k].totalResponses

(* ------------------------------------------------------------------ *)
(* C4                                                                  *)
(* ------------------------------------------------------------------ *)

\* C4: under every filter each model's filteredData holds exactly the
\* (configuration, question) branches of the model's raw subtree whose
\* question the filter lets through (all of them when the filter is empty),
\* each key once, and under each branch the raw response sequence, equal in
\* order and in every value.
C4_FilteredDataExact ==
  \A k \in 1..Len(modelsMetrics) :
    LET params == ParamsOfModel(modelsMetrics[k].modelName)
        fd     == modelsMetrics[k].filteredData
    IN  /\ BranchesOf(fd) =
             { b \in BranchesOf(params) :
                 selectedQuestions = << >> \/ b[2] \in Range(selectedQuestions) }
        /\ \A b \in BranchesOf(fd) : ResponsesAt(fd, b) = ResponsesAt(params, b)
        /\ \A i, j \in 1..Len(fd) : i # j => fd[i].key # fd[j].key
        /\ \A i \in 1..Len(fd) :
             /\ fd[i].value # EmptyObject
             /\ \A a, b \in 1..Len(fd[i].value) : a # b => fd[i].value[a].key # fd[i].value[b].key

\* A non-empty filter over a model with a branch kept, whose two responses
\* are not in answer-number order, and a branch left out.
C4_Witness ==
  /\ selectedQuestions # << >>
  /\ \E k \in 1..Len(modelsMetrics) :
       LET params == ParamsOfModel(modelsMetrics[k].modelName)
           fd     == modelsMetrics[k].filteredData
       IN  /\ BranchesOf(fd) # BranchesOf(params)
           /\ \E b \in BranchesOf(fd) :
                /\ Len(ResponsesAt(fd, b)) = 2
                /\ ResponsesAt(fd, b)[1].answer_num > ResponsesAt(fd, b)[2].answer_num

(* ------------------------------------------------------------------ *)
(* C5                                                                  *)
(* ------------------------------------------------------------------ *)

\* The Response records a filteredData holds.
CountOfFiltered(fd) == CountIn(fd, QuestionsOf(fd))

\* C5 as stated: totalResponses is the number of Response records of
\* filteredData, and it is zero exactly when filteredData is empty.
C5_Original ==
  \A k \in 1..Len(modelsMetrics) :
    /\ modelsMetrics[k].totalResponses = CountOfFiltered(modelsMetrics[k].filteredData)
    /\ modelsMetrics[k].totalResponses = 0 <=> modelsMetrics[k].filteredData = EmptyObject

\* C5: totalResponses is the number of Response records over all
\* (configuration, question) pairs of filteredData; an empty filteredData
\* gives totalResponses zero, and a zero totalResponses means that every
\* branch filteredData holds is a sequence of length zero.
C5_TotalIsCount ==
  \A k \in 1..Len(modelsMetrics) :
    LET fd == modelsMetrics[k].filteredData
    IN  /\ modelsMetrics[k].totalResponses = CountOfFiltered(fd)
        /\ fd = EmptyObject => modelsMetrics[k].totalResponses = 0
        /\ modelsMetrics[k].totalResponses = 0 =>
             \A b \in BranchesOf(fd) : ResponsesAt(fd, b) = << >>

\* Under a non-empty filter, a model summarised over two branches, one of them a sequence of length
\* zero, the other holding two responses.
C5_Witness ==
  \E k \in 1..Len(modelsMetrics) :
    LET fd == modelsMetrics[k].filteredData
    IN  /\ selectedQuestions # << >>
        /\ modelsMetrics[k].totalResponses = 2
        /\ \E b \in BranchesOf(fd) : ResponsesAt(fd, b) = << >>
        /\ \E b \in BranchesOf(fd) : Len(ResponsesAt(fd, b)) = 2

(* ------------------------------------------------------------------ *)
(* C6                                                                  *)
(* ------------------------------------------------------------------ *)

\* C6: in every state the drill-down projection is null when no model is
\* selected, and otherwise the filteredData of the selected model computed
\* under the current filter; with the filter ["Q1"] it holds no question
\* but Q1.
C6_DrillDownLive ==
  /\ selectedModelName = null => selectedModelDetail = NullDetail
  /\ selectedModelName # null =>
       /\ selectedModelName \in ModelKeys
       /\ ~selectedModelDetail.isNull
       /\ \A k \in EntriesOf(ModelsMetrics(sampleData, selectedQuestions), selectedModelName) :
            selectedModelDetail.value =
              ModelsMetrics(sampleData, selectedQuestions)[k].filteredData
       /\ selectedQuestions = <<"Q1">> =>
            /\ QuestionsOf(selectedModelDetail.value) \subseteq {"Q1"}
            /\ \A b \in BranchesOf(selectedModelDetail.value) :
                 ResponsesAt(selectedModelDetail.value, b) =
                   ResponsesAt(ParamsOfModel(selectedModelName), b)

\* A model with data under Q1 and under Q2 is open while the filter is
\* ["Q1"]: the projection shows Q1 alone.
C6_Witness ==
  /\ selectedModelName # null
  /\ modalOpen
  /\ selectedQuestions = <<"Q1">>
  /\ QuestionsOf(ParamsOfModel(selectedModelName)) = {"Q1", "Q2"}
  /\ ~selectedModelDetail.isNull
  /\ QuestionsOf(selectedModelDetail.value) = {"Q1"}

(* ------------------------------------------------------------------ *)
(* C7                                                                  *)
(* ------------------------------------------------------------------ *)

\* The place of a model among the keys of the dataset.
KeyIndex(m) == CHOOSE i \in 1..Len(sampleData.models) : sampleData.models[i].key = m

\* C7: the ranked summaries are a permutation of the aggregated summaries,
\* in descending order of totalResponses, models with equal totalResponses
\* in dataset key order, the first holding the maximum.
C7_RankedStable ==
  LET aggregated == Metrics(sampleData, selectedQuestions)
  IN  /\ Len(modelsMetrics) = Len(aggregated)
      /\ \A i \in 1..Len(aggregated) : \E j \in 1..Len(modelsMetrics) : modelsMetrics[j] = aggregated[i]
      /\ \A i, j \in 1..Len(modelsMetrics) :
           i < j =>
             /\ modelsMetrics[i].totalResponses >= modelsMetrics[j].totalResponses
             /\ modelsMetrics[i].totalResponses = modelsMetrics[j].totalResponses =>
                  KeyIndex(modelsMetrics[i].modelName) < KeyIndex(modelsMetrics[j].modelName)
      /\ \A j \in 1..Len(modelsMetrics) :
           modelsMetrics[1].totalResponses >= modelsMetrics[j].totalResponses
      /\ BestTotal(modelsMetrics) = modelsMetrics[1].totalResponses

\* Three models aggregated under the filter ["Q1"] with totals 1, 2, 2: the two tied models are
\* ranked first, in their dataset order, the third last.
C7_Witness ==
  LET aggregated == Metrics(sampleData, selectedQuestions)
  IN  /\ selectedQuestions = <<"Q1">>
      /\ Len(aggregated) = 3
      /\ aggregated[1].totalResponses = 1
      /\ aggregated[2].totalResponses = 2
      /\ aggregated[3].totalResponses = 2
      /\ modelsMetrics = <<aggregated[2], aggregated[3], aggregated[1]>>

(* ------------------------------------------------------------------ *)
(* C8                                                                  *)
(* ------------------------------------------------------------------ *)

\* The responses a filteredData holds, in the order the aggregation met them.
RECURSIVE FlattenQuestions(_)
FlattenQuestions(entries) ==
  IF entries = << >> THEN << >> ELSE Head(entries).value \o FlattenQuestions(Tail(entries))

RECURSIVE FlattenParams(_)
FlattenParams(entries) ==
  IF entries = << >> THEN << >>
  ELSE FlattenQuestions(Head(entries).value) \o FlattenParams(Tail(entries))

\* The included responses of a summary have coherence scores [3.2, 4.8] and
\* dissimilarity scores [0.1, 0.25].
HasTheExampleScores(metric) ==
  LET included == FlattenParams(metric.filteredData)
  IN  /\ [i \in 1..Len(included) |-> included[i].coherence_score] = <<D_3_2, D_4_8>>
      /\ [i \in 1..Len(included) |-> included[i].embedding_dissimilarity_score] = <<D_0_1, D_0_25>>

\* C8 as stated: such a summary reports totalCoherence "8" and
\* totalDissimilarity "0.35".
C8_Original ==
  \A k \in 1..Len(modelsMetrics) :
    HasTheExampleScores(modelsMetrics[k]) =>
      /\ modelsMetrics[k].totalCoherence = "8"
      /\ modelsMetrics[k].totalDissimilarity = "0.35"

\* C8: a summary whose included responses have coherence scores [3.2, 4.8]
\* and dissimilarity scores [0.1, 0.25] reports totalCoherence "8" and
\* totalDissimilarity "0.3": the sum is rounded to one decimal place.
C8_FormattingExact ==
  \A k \in 1..Len(modelsMetrics) :
    HasTheExampleScores(modelsMetrics[k]) =>
      /\ modelsMetrics[k].totalCoherence = "8"
      /\ modelsMetrics[k].totalDissimilarity = "0.3"

\* A summary with the example's scores, computed under a non-empty filter.
C8_Witness ==
  /\ selectedQuestions # << >>
  /\ \E k \in 1..Len(modelsMetrics) :
       /\ HasTheExampleScores(modelsMetrics[k])
       /\ modelsMetrics[k].totalResponses = 2

(* ------------------------------------------------------------------ *)
(* C9                                                                  *)
(* ------------------------------------------------------------------ *)

\* C9 as stated: the sum of totalResponses over all models does not grow on
\* a step that removes questions from the selection, the step that removes
\* the last one included, and does not shrink on a step that adds questions.
C9_Original ==
  [][ /\ (Range(selectedQuestions') \subseteq Range(selectedQuestions)
          /\ Range(selectedQuestions') # Range(selectedQuestions))
         => SumTotals(modelsMetrics') <= SumTotals(modelsMetrics)
      /\ (Range(selectedQuestions) \subseteq Range(selectedQuestions')
          /\ Range(selectedQuestions') # Range(selectedQuestions))
         => SumTotals(modelsMetrics') >= SumTotals(modelsMetrics) ]_vars

\* C9: on a step between two non-empty filters the sum of totalResponses
\* over all models does not grow when questions are removed and does not
\* shrink when questions are added; a step to the empty filter brings the
\* sum to the unfiltered grand total, which no step's sum exceeds, so a step
\* away from the empty filter does not raise it.
C9_SumMonotone ==
  [][ /\ (selectedQuestions # << >> /\ selectedQuestions' # << >>
          /\ Range(selectedQuestions') \subseteq Range(selectedQuestions))
         => SumTotals(modelsMetrics') <= SumTotals(modelsMetrics)
      /\ (selectedQuestions # << >> /\ selectedQuestions' # << >>
          /\ Range(selectedQuestions) \subseteq Range(selectedQuestions'))
         => SumTotals(modelsMetrics') >= SumTotals(modelsMetrics)
      /\ selectedQuestions' = << >>
         => /\ SumTotals(modelsMetrics') = GrandTotal
            /\ SumTotals(modelsMetrics') >= SumTotals(modelsMetrics)
      /\ selectedQuestions = << >>
         => /\ SumTotals(modelsMetrics) = GrandTotal
            /\ SumTotals(modelsMetrics') <= SumTotals(modelsMetrics) ]_vars

\* One of two questions is selected and the sum is below the grand total
\* and above zero: removing that question raises the sum, adding the other
\* raises it too.
C9_Witness ==
  /\ Len(selectedQuestions) = 1
  /\ Len(uniqueQuestions) = 2
  /\ SumTotals(modelsMetrics) > 0
  /\ SumTotals(modelsMetrics) < GrandTotal

(* ------------------------------------------------------------------ *)
(* C10                                                                 *)
(* ------------------------------------------------------------------ *)

\* C10: the question index holds every question that occurs under any model
\* and any configuration of the dataset, nothing else, and each once.
C10_QuestionIndexExact ==
  /\ Range(uniqueQuestions) = AllQuestions
  /\ \A i, j \in 1..Len(uniqueQuestions) : i # j => uniqueQuestions[i] # uniqueQuestions[j]

\* A question that occurs under two models: the index holds it once.
C10_Witness ==
  \E q \in AllQuestions :
    \E m1, m2 \in ModelKeys :
      /\ m1 # m2
      /\ q \in QuestionsOf(ParamsOfModel(m1))
      /\ q \in QuestionsOf(ParamsOfModel(m2))
      /\ uniqueQuestions = <<q>>

(* ------------------------------------------------------------------ *)
(* C11                                                                 *)
(* ------------------------------------------------------------------ *)

\* C11: with the full question index selected (handleSelectAll) the ranked
\* summaries - every model's totalResponses, totalCoherence,
\* totalDissimilarity and filteredData, and their order - are those of the
\* empty filter (handleDeselectAll), and with the empty filter they are
\* those of the full question index.
C11_SelectAllIsDeselectAll ==
  /\ selectedQuestions = uniqueQuestions =>
       modelsMetrics = ModelsMetrics(sampleData, << >>)
  /\ selectedQuestions = << >> =>
       modelsMetrics = ModelsMetrics(sampleData, uniqueQuestions)

\* Both questions of the index are selected over two models with responses,
\* the second model of the dataset ranked first.
C11_Witness ==
  /\ Len(uniqueQuestions) = 2
  /\ selectedQuestions = uniqueQuestions
  /\ Len(modelsMetrics) = 2
  /\ modelsMetrics[1].modelName = sampleData.models[2].key
  /\ modelsMetrics[2].totalResponses > 0

====
